---- MODULE Spec2Model ----
(***************************************************************************)
(* Stack composition of the ECS/Jenkins CDK project.                       *)
(*                                                                         *)
(* Three entry points are modelled: bin/multi-stack-cdk.ts (one            *)
(* environment, one deploy target per run), the multi-environment half of  *)
(* bin/cdk-projects.ts (all environments, infrastructure + application)    *)
(* and its single-stack half (one EcsJenkinsGithubStack for dev).          *)
(* A run constructs stacks one after the other; a constructor that throws  *)
(* ends the run.  A run that synthesised may then be deployed, which is    *)
(* when the exports of its stacks reach the persisted export store and     *)
(* Fn::ImportValue tokens are resolved against it.                         *)
(* The Jenkinsfile's build is a second specification, PipelineSpec: its   *)
(* stages in order, each command succeeding or failing.                    *)
(*                                                                         *)
(* JavaScript values: a property that an object does not have reads as     *)
(* undefined; a template literal renders it as the text "undefined".       *)
(* Records here carry exactly the properties the source passes, so a       *)
(* missing field of a record is an undefined property.                     *)
(***************************************************************************)
EXTENDS Integers, Sequences, FiniteSets, TLC

VARIABLES
  entry,      \* which bin/ script this process runs: "none", "multi", "projects", "single"
  args,       \* the -c context arguments given to the process
  procEnv,    \* process.env: variable name -> value, for the variables that are set
  pc,         \* position of the process
  idx,        \* next stack statement (while constructing) or next stack (while deploying)
  config,     \* createStacks: const config
  envVars,    \* createStacks: const envVars
  stacks,     \* stacks whose constructor has returned in this run, in construction order
  deps,       \* addDependency edges declared in this run: <<dependent id, dependency id>>
  err,        \* message of the exception that ended the run, "" if none
  store,      \* persisted export store: <<region, export name>> -> [value, stack, env]
  published,  \* every publication ever made to the store
  runs,       \* number of processes started so far
  jenkins     \* the Jenkins job: its build in progress (Jenkinsfile)

vars == <<entry, args, procEnv, pc, idx, config, envVars, stacks, deps, err,
          store, published, runs, jenkins>>

-----------------------------------------------------------------------------
(* Bounds *)

\* processes started in one behaviour
MaxRuns == 2
\* secret variables left unset in the process environment
MaxUnset == 1

-----------------------------------------------------------------------------
(* JavaScript value helpers *)

Undefined == "undefined"

\* !x for a string-or-undefined x
Falsy(x) == x = Undefined \/ x = ""

\* a || b
OrElse(a, b) == IF Falsy(a) THEN b ELSE a

\* `${obj.f}` inside a template literal
Tmpl(obj, f) == IF f \in DOMAIN obj THEN obj[f] ELSE Undefined

\* { ...a, ...b }
Spread(a, b) ==
  [k \in DOMAIN a \cup DOMAIN b |-> IF k \in DOMAIN b THEN b[k] ELSE a[k]]

\* an object literal that copies the listed properties of obj; a property
\* that is undefined in obj is undefined in the copy
Pick(obj, fields) == [f \in fields \cap DOMAIN obj |-> obj[f]]

\* String.prototype.toUpperCase on the environment names a run can be given
ToUpperCase(s) ==
  CASE s = "dev" -> "DEV"
    [] s = "prod" -> "PROD"
    [] s = "dr" -> "DR"
    [] s = "staging" -> "STAGING"
    [] OTHER -> s

\* env.charAt(0).toUpperCase() + env.slice(1)
Capitalize(s) ==
  CASE s = "dev" -> "Dev"
    [] s = "prod" -> "Prod"
    [] s = "dr" -> "Dr"
    [] s = "staging" -> "Staging"
    [] OTHER -> s

-----------------------------------------------------------------------------
(* lib/constructs/config/environment-config.ts *)

devConfig ==
  [ awsRegion |-> "us-east-1",
    environment |-> "dev",
    vpcCidr |-> "10.0.0.0/16",
    availabilityZones |-> <<"us-east-1a", "us-east-1b">>,
    useSpotInstances |-> TRUE,
    keyName |-> "dev-key",
    jenkinsRoleName |-> "jenkins-role-dev",
    domainName |-> "dev.example.com",
    tags |-> [Environment |-> "dev", Project |-> "ecs-jenkins", ManagedBy |-> "CDK"] ]

prodConfig ==
  [ awsRegion |-> "us-east-1",
    environment |-> "prod",
    vpcCidr |-> "10.1.0.0/16",
    availabilityZones |-> <<"us-east-1a", "us-east-1b">>,
    useSpotInstances |-> FALSE,
    keyName |-> "prod-key",
    jenkinsRoleName |-> "jenkins-role-prod",
    domainName |-> "example.com",
    tags |-> [Environment |-> "prod", Project |-> "ecs-jenkins", ManagedBy |-> "CDK"] ]

drConfig ==
  [ awsRegion |-> "us-west-2",
    environment |-> "dr",
    vpcCidr |-> "10.2.0.0/16",
    availabilityZones |-> <<"us-west-2a", "us-west-2b">>,
    useSpotInstances |-> FALSE,
    keyName |-> "dr-key",
    jenkinsRoleName |-> "jenkins-role-dr",
    domainName |-> "dr-ecs-jenkins.example.com",
    tags |-> [Environment |-> "dr", Project |-> "ecs-jenkins", ManagedBy |-> "CDK",
              DisasterRecovery |-> "PilotLight"] ]

RegisteredEnvs == {"dev", "prod", "dr"}

-----------------------------------------------------------------------------
(* bin/multi-stack-cdk.ts: context arguments and lookups *)

env == OrElse(args.env, "dev")
\* the deploy target, were it read without its default
deployTarget_noDefault == args.target
deployTarget == OrElse(args.target, "all")
clusterVersion == args.clusterVersion
appVersion == OrElse(args.version, "latest")

getEnvConfig(e) ==
  CASE e = "prod" -> prodConfig
    [] e = "dr" -> drConfig
    [] e = "dev" -> devConfig
    [] OTHER -> devConfig

\* process.env[name]
ProcessEnv(name) == IF name \in DOMAIN procEnv THEN procEnv[name] ELSE Undefined

EnvPrefix_unprefixed(e) == ""

EnvPrefix(e) == IF e = "dev" THEN "" ELSE ToUpperCase(e) \o "_"

getEnvVars(e) ==
  [ dbUsername |-> OrElse(ProcessEnv(EnvPrefix(e) \o "DB_USERNAME"), ""),
    dbPassword |-> OrElse(ProcessEnv(EnvPrefix(e) \o "DB_PASSWORD"), ""),
    grafanaPassword |-> OrElse(ProcessEnv(EnvPrefix(e) \o "GRAFANA_ADMIN_PASSWORD"), "") ]

stackNamePrefix == "EcsJenkins"
stackSuffix == Capitalize(env)

-----------------------------------------------------------------------------
(* Cross-stack values *)

\* `${projectName}-${environment}-${exportName}`
\* an export name that leaves the environment out
ExportKey_noEnvironment(project, environment, name) == project \o "-" \o name

ExportKey(project, environment, name) == project \o "-" \o environment \o "-" \o name

\* the attribute of a resource of stack `id` that the output `name` publishes
Attr(id, name) == id \o "." \o name

\* cdk.Fn.importValue(key): a token resolved by the orchestrator at deployment
ImportValue(key) == [kind |-> "importValue", key |-> key, value |-> Undefined]

\* a live attribute of a stack constructed earlier in the same process
Ref(id, name) == [kind |-> "ref", key |-> id, value |-> Attr(id, name)]

\* new cdk.CfnOutput(..., { value, exportName })
CfnOutput(id, name, exportName) == [name |-> name, key |-> exportName, value |-> Attr(id, name)]

Thrown(msg) == [ok |-> FALSE, error |-> msg]

TypeErrorReading(prop) ==
  Thrown("TypeError: Cannot read properties of undefined (reading '" \o prop \o "')")

-----------------------------------------------------------------------------
(* lib/constructs/network/network-construct.ts *)

\* Math.floor(Math.random() * 100000000).toString(36): two of the values a
\* call can return
Suffixes == {"1e2k9", "q0x7c"}

\* `${props.environment}-${...random...}`
SuffixId(props, rnd) == Tmpl(props, "environment") \o "-" \o rnd

\* rnd: what Math.random gives this constructor
NetworkConstruct(props, rnd) ==
  IF "availabilityZones" \notin DOMAIN props
    THEN TypeErrorReading("length")
    ELSE [ ok |-> TRUE, error |-> "", maxAzs |-> Len(props.availabilityZones),
           buckets |-> { "alb-logs-" \o SuffixId(props, rnd),
                         "alb-logs-access-" \o SuffixId(props, rnd),
                         "replication-logs-" \o SuffixId(props, rnd) } ]

-----------------------------------------------------------------------------
(* lib/constructs/security/security-construct.ts *)

SecurityConstruct(props, rnd) ==
  [ ok |-> TRUE, error |-> "",
    buckets |-> { Tmpl(props, "projectName") \o "-" \o Tmpl(props, "environment")
                    \o "-waf-logs-" \o SuffixId(props, rnd),
                  Tmpl(props, "projectName") \o "-" \o Tmpl(props, "environment")
                    \o "-config-" \o SuffixId(props, rnd) } ]

-----------------------------------------------------------------------------
(* lib/infrastructure-stack.ts *)

InfraExportNames ==
  { "vpc-id", "public-subnets", "private-subnets", "alb-sg-id", "ecs-sg-id",
    "jenkins-sg-id", "ecs-execution-role-arn", "ecs-task-role-arn", "db-endpoint" }

\* the constructor without its two secret checks
InfrastructureStack_unchecked(id, props, rnd) ==
  LET network == NetworkConstruct(Pick(props, {"vpcCidr", "availabilityZones",
                                               "environment", "projectName"}), rnd[1])
  IN IF ~network.ok
       THEN network
       ELSE [ ok |-> TRUE, error |-> "",
              exports |-> { CfnOutput(id, n,
                              ExportKey(Tmpl(props, "projectName"),
                                        Tmpl(props, "environment"), n))
                            : n \in InfraExportNames },
              tags |-> Tmpl(props, "tags"),
              buckets |-> network.buckets ]

\* the constructor, were its export names built from suffixId
InfrastructureStack_suffixedKeys(id, props, rnd) ==
  IF Falsy(Tmpl(props, "dbUsername"))
    THEN Thrown("DB_USERNAME environment variable must be set")
  ELSE IF Falsy(Tmpl(props, "dbPassword"))
    THEN Thrown("DB_PASSWORD environment variable must be set")
  ELSE
    LET built == InfrastructureStack_unchecked(id, props, rnd)
    IN IF ~built.ok
         THEN built
         ELSE [ built EXCEPT !.exports =
                  { CfnOutput(id, n, ExportKey(Tmpl(props, "projectName"),
                                               SuffixId(props, rnd[1]), n))
                    : n \in InfraExportNames } ]

\* rnd: what Math.random gives the network and the security construct
InfrastructureStack(id, props, rnd) ==
  IF Falsy(Tmpl(props, "dbUsername"))
    THEN Thrown("DB_USERNAME environment variable must be set")
  ELSE IF Falsy(Tmpl(props, "dbPassword"))
    THEN Thrown("DB_PASSWORD environment variable must be set")
  ELSE
    LET network == NetworkConstruct(Pick(props,
                     { "vpcCidr", "publicSubnetCidrs", "privateSubnetCidrs",
                       "databaseSubnetCidrs", "availabilityZones", "environment",
                       "projectName" }), rnd[1])
        security == SecurityConstruct(Pick(props,
                      { "environment", "projectName", "blockedIpAddresses",
                        "maxRequestSize", "requestLimit", "enableSecurityHub",
                        "awsRegion" }), rnd[2])
    IN IF ~network.ok
         THEN network
         ELSE [ ok |-> TRUE, error |-> "",
                exports |-> { CfnOutput(id, n,
                                ExportKey(Tmpl(props, "projectName"),
                                          Tmpl(props, "environment"), n))
                              : n \in InfraExportNames },
                tags |-> Tmpl(props, "tags"),
                buckets |-> network.buckets \cup security.buckets ]

-----------------------------------------------------------------------------
(* lib/cluster-stack.ts *)

ClusterExportNames == { "cluster-arn", "cluster-name", "log-group", "task-execution-role-arn" }

\* lookup: what ec2.Vpc.fromLookup does with the vpcId it is given; the call
\* is answered outside this repository
ClusterStack(id, props, lookup) ==
  IF lookup = "throws"
    THEN Thrown("Vpc.fromLookup failed")
    ELSE
      LET environmentConfig == props.environmentConfig
          appName == Tmpl(environmentConfig, "appName")
          envName == Tmpl(environmentConfig, "envName")
          versionTag == IF Falsy(Tmpl(props, "clusterVersion"))
                          THEN <<>>
                          ELSE [ClusterVersion |-> props.clusterVersion]
      IN [ ok |-> TRUE, error |-> "",
           clusterName |-> appName \o "-" \o envName,
           exports |-> { CfnOutput(id, n, ExportKey(appName, envName, n))
                         : n \in ClusterExportNames },
           tags |-> Spread(Spread(Tmpl(props, "tags"),
                                  [Environment |-> envName, Application |-> appName,
                                   Component |-> "Cluster"]),
                           versionTag),
           buckets |-> {} ]

-----------------------------------------------------------------------------
(* lib/application-stack.ts *)

\* the application stack, were it to export the VPC id it is given as well
AppExportNames_withVpcId == { "lb-dns", "jenkins-url", "vpc-id" }

AppExportNames == { "lb-dns", "jenkins-url" }

ApplicationStack(id, props) ==
  IF Falsy(Tmpl(props, "grafanaAdminPassword"))
    THEN Thrown("GRAFANA_ADMIN_PASSWORD environment variable must be set")
  ELSE IF "publicSubnetIds" \notin DOMAIN props \/ "privateSubnetIds" \notin DOMAIN props
    THEN TypeErrorReading("map")
  ELSE [ ok |-> TRUE, error |-> "",
         exports |-> { CfnOutput(id, n,
                         ExportKey(Tmpl(props, "projectName"),
                                   Tmpl(props, "environment"), n))
                       : n \in AppExportNames },
         tags |-> Tmpl(props, "tags"),
         buckets |-> {} ]

-----------------------------------------------------------------------------
(* Jenkinsfile: the state of the job *)

\* the job before its first build
NoBuild == [ build |-> 0, branch |-> "none", pc |-> "idle", failed |-> FALSE,
             lint |-> "pending", audit |-> "pending", ran |-> <<>>, cleaned |-> FALSE ]

-----------------------------------------------------------------------------
(* Run state *)

Unresolved == <<>>
NoArgs == [env |-> Undefined, target |-> Undefined, clusterVersion |-> Undefined,
           version |-> Undefined]

SecretVars == {"DB_USERNAME", "DB_PASSWORD", "GRAFANA_ADMIN_PASSWORD"}
SecretNames == {EnvPrefix(e) \o v : e \in RegisteredEnvs, v \in SecretVars}

\* inputs a process can be started with
EnvArgs == {Undefined, "dev", "prod", "dr", "staging"}
TargetArgs == {Undefined, "all", "infra", "cluster", "app", "infra,cluster"}
ClusterVersionArgs == {Undefined, "1.29"}
VersionArgs == {Undefined, "1.2.3"}

Imp(name, v) == [name |-> name, kind |-> v.kind, key |-> v.key, value |-> v.value]

StackRecord(id, role, e, region, imports, built) ==
  [ id |-> id, role |-> role, env |-> e, region |-> region, imports |-> imports,
    exports |-> built.exports, tags |-> built.tags, buckets |-> built.buckets ]

StackOfRole(role) == CHOOSE s \in {stacks[i] : i \in 1..Len(stacks)} : s.role = role
HasRole(role) == \E i \in 1..Len(stacks) : stacks[i].role = role

Init ==
  /\ entry = "none"
  /\ args = NoArgs
  /\ procEnv \in { [n \in SecretNames \ U |-> "secret"] :
                   U \in {X \in SUBSET SecretNames : Cardinality(X) <= MaxUnset} }
  /\ pc = "idle"
  /\ idx = 0
  /\ config = Unresolved
  /\ envVars = Unresolved
  /\ stacks = <<>>
  /\ deps = {}
  /\ err = ""
  /\ store = <<>>
  /\ published = {}
  /\ runs = 0
  /\ jenkins = NoBuild

-----------------------------------------------------------------------------
(* bin/multi-stack-cdk.ts *)

\* node bin/multi-stack-cdk.ts -c env=.. -c deploy-target=.. -c cluster-version=.. -c version=..
StartMulti ==
  /\ pc = "idle"
  /\ runs < MaxRuns
  /\ \E e \in EnvArgs, t \in TargetArgs, cv \in ClusterVersionArgs, v \in VersionArgs :
       args' = [env |-> e, target |-> t, clusterVersion |-> cv, version |-> v]
  /\ entry' = "multi"
  /\ pc' = "config"
  /\ runs' = runs + 1
  /\ UNCHANGED <<procEnv, jenkins, idx, config, envVars, stacks, deps, err, store, published>>

\* const config = getEnvConfig(env)
ResolveConfig ==
  /\ pc = "config"
  /\ config' = getEnvConfig(env)
  /\ pc' = "vars"
  /\ UNCHANGED <<entry, args, procEnv, jenkins, idx, envVars, stacks, deps, err, store, published, runs>>

\* const envVars = getEnvVars(env)
ResolveVars ==
  /\ pc = "vars"
  /\ envVars' = getEnvVars(env)
  /\ pc' = "construct"
  /\ idx' = 1
  /\ UNCHANGED <<entry, args, procEnv, jenkins, config, stacks, deps, err, store, published, runs>>

\* dependent.addDependency(dependency): dependency must be deployed before dependent
AddDependency_dropped(dependent, dependency) == deps

AddDependency_reversed(dependent, dependency) == deps \cup {<<dependency, dependent>>}

AddDependency(dependent, dependency) == deps \cup {<<dependent, dependency>>}

\* the exception of a constructor, were the stacks built before it discarded
Fail_rollsBack(msg) ==
  /\ pc' = "failed"
  /\ err' = msg
  /\ stacks' = <<>>
  /\ UNCHANGED <<idx, deps>>

Fail(msg) ==
  /\ pc' = "failed"
  /\ err' = msg
  /\ UNCHANGED <<idx, stacks, deps>>

InfraId == stackNamePrefix \o "Infra" \o stackSuffix \o "Stack"
ClusterId == stackNamePrefix \o "Cluster" \o stackSuffix \o "Stack"
AppId == stackNamePrefix \o "App" \o stackSuffix \o "Stack"

\* if (deployTarget === 'all' || deployTarget === 'infra') { new InfrastructureStack(...) }
MultiInfra ==
  /\ pc = "construct" /\ entry = "multi" /\ idx = 1
  /\ IF deployTarget \in {"all", "infra"}
       THEN \E rnd \in Suffixes \X Suffixes :
            LET props == [ environmentConfig |-> config,
                           dbUsername |-> envVars.dbUsername,
                           dbPassword |-> envVars.dbPassword,
                           env |-> [region |-> config.awsRegion],
                           tags |-> Spread(config.tags, [Component |-> "Infrastructure"]) ]
                built == InfrastructureStack(InfraId, props, rnd)
            IN IF built.ok
                 THEN /\ stacks' = Append(stacks,
                            StackRecord(InfraId, "infrastructure", env, props.env.region, {}, built))
                      /\ idx' = 2
                      /\ UNCHANGED <<pc, err, deps>>
                 ELSE Fail(built.error)
       ELSE /\ idx' = 2
            /\ UNCHANGED <<pc, err, stacks, deps>>
  /\ UNCHANGED <<entry, args, procEnv, jenkins, config, envVars, store, published, runs>>

VpcIdImportKey == ExportKey(Tmpl(config, "appName"), Tmpl(config, "envName"), "vpc-id")
ClusterNameImportKey == ExportKey(Tmpl(config, "appName"), Tmpl(config, "envName"), "cluster-name")

\* the cluster step, were its dependency on the infrastructure stack declared
\* without the if (infraStack) guard
MultiCluster_unguardedDependency ==
  /\ pc = "construct" /\ entry = "multi" /\ idx = 2
  /\ IF deployTarget \in {"all", "cluster"}
       THEN \E lookup \in {"ok", "throws"} :
            LET props == [ environmentConfig |-> config,
                           vpcId |-> ImportValue(VpcIdImportKey),
                           clusterVersion |-> clusterVersion,
                           env |-> [region |-> config.awsRegion],
                           tags |-> Spread(config.tags, [Component |-> "Cluster"]) ]
                built == ClusterStack(ClusterId, props, lookup)
            IN IF built.ok
                 THEN /\ stacks' = Append(stacks,
                            StackRecord(ClusterId, "cluster", env, props.env.region,
                                        {Imp("vpc-id", props.vpcId)}, built))
                      /\ deps' = AddDependency(ClusterId, InfraId)
                      /\ idx' = 3
                      /\ UNCHANGED <<pc, err>>
                 ELSE Fail(built.error)
       ELSE /\ idx' = 3
            /\ UNCHANGED <<pc, err, stacks, deps>>
  /\ UNCHANGED <<entry, args, procEnv, jenkins, config, envVars, store, published, runs>>

\* the cluster step, were it Object.assign(config.tags, { Component: 'Cluster' })
MultiCluster_assignsTag ==
  /\ pc = "construct" /\ entry = "multi" /\ idx = 2
  /\ IF deployTarget \in {"all", "cluster"}
       THEN \E lookup \in {"ok", "throws"} :
            LET props == [ environmentConfig |-> config,
                           vpcId |-> ImportValue(VpcIdImportKey),
                           clusterVersion |-> clusterVersion,
                           env |-> [region |-> config.awsRegion],
                           tags |-> Spread(config.tags, [Component |-> "Cluster"]) ]
                tagged == [config EXCEPT !.tags = props.tags]
                built == ClusterStack(ClusterId, props, lookup)
            IN IF built.ok
                 THEN /\ stacks' = Append(stacks,
                            StackRecord(ClusterId, "cluster", env, props.env.region,
                                        {Imp("vpc-id", props.vpcId)}, built))
                      /\ deps' = IF HasRole("infrastructure")
                                   THEN AddDependency(ClusterId, StackOfRole("infrastructure").id)
                                   ELSE deps
                      /\ idx' = 3
                      /\ config' = tagged
                      /\ UNCHANGED <<pc, err>>
                 ELSE Fail(built.error) /\ config' = tagged
       ELSE /\ idx' = 3
            /\ UNCHANGED <<pc, err, stacks, deps, config>>
  /\ UNCHANGED <<entry, args, procEnv, jenkins, envVars, store, published, runs>>

\* if (deployTarget === 'all' || deployTarget === 'cluster') { new ClusterStack(...) }
MultiCluster ==
  /\ pc = "construct" /\ entry = "multi" /\ idx = 2
  /\ IF deployTarget \in {"all", "cluster"}
       THEN \E lookup \in {"ok", "throws"} :
            LET props == [ environmentConfig |-> config,
                           vpcId |-> ImportValue(VpcIdImportKey),
                           clusterVersion |-> clusterVersion,
                           env |-> [region |-> config.awsRegion],
                           tags |-> Spread(config.tags, [Component |-> "Cluster"]) ]
                built == ClusterStack(ClusterId, props, lookup)
            IN IF built.ok
                 THEN /\ stacks' = Append(stacks,
                            StackRecord(ClusterId, "cluster", env, props.env.region,
                                        {Imp("vpc-id", props.vpcId)}, built))
                      /\ deps' = IF HasRole("infrastructure")
                                   THEN AddDependency(ClusterId, StackOfRole("infrastructure").id)
                                   ELSE deps
                      /\ idx' = 3
                      /\ UNCHANGED <<pc, err>>
                 ELSE Fail(built.error)
       ELSE /\ idx' = 3
            /\ UNCHANGED <<pc, err, stacks, deps>>
  /\ UNCHANGED <<entry, args, procEnv, jenkins, config, envVars, store, published, runs>>

\* if (deployTarget === 'all' || deployTarget === 'app') { new ApplicationStack(...) }
MultiApp ==
  /\ pc = "construct" /\ entry = "multi" /\ idx = 3
  /\ IF deployTarget \in {"all", "app"}
       THEN LET props == [ environmentConfig |-> config,
                           vpcId |-> ImportValue(VpcIdImportKey),
                           clusterName |-> ImportValue(ClusterNameImportKey),
                           applicationVersion |-> appVersion,
                           grafanaAdminPassword |-> envVars.grafanaPassword,
                           env |-> [region |-> config.awsRegion],
                           tags |-> Spread(config.tags, [Component |-> "Application"]) ]
                built == ApplicationStack(AppId, props)
            IN IF built.ok
                 THEN /\ stacks' = Append(stacks,
                            StackRecord(AppId, "application", env, props.env.region,
                                        {Imp("vpc-id", props.vpcId),
                                         Imp("cluster-name", props.clusterName)}, built))
                      /\ deps' = IF HasRole("cluster")
                                   THEN AddDependency(AppId, StackOfRole("cluster").id)
                                   ELSE deps
                      /\ pc' = "done"
                      /\ UNCHANGED <<idx, err>>
                 ELSE Fail(built.error)
       ELSE /\ pc' = "done"
            /\ UNCHANGED <<idx, err, stacks, deps>>
  /\ UNCHANGED <<entry, args, procEnv, jenkins, config, envVars, store, published, runs>>

-----------------------------------------------------------------------------
(* bin/cdk-projects.ts, second script: every environment, infrastructure + application *)

\* projectName: 'ecs-jenkins'
ProjectName == "ecs-jenkins"

ProjectsPlan == << "dev", "prod", "dr" >>

ProjectsConfig(e) ==
  CASE e = "dev" -> devConfig
    [] e = "prod" -> prodConfig
    [] e = "dr" -> drConfig

ProjectsInfraId(e) == "EcsJenkinsGithub" \o Capitalize(e) \o "InfrastructureStack"
\* every block naming its application stack as the dev block does
ProjectsAppId_copyPasted(e) == "EcsJenkinsGithubDevApplicationStack"

ProjectsAppId(e) == "EcsJenkinsGithub" \o Capitalize(e) \o "ApplicationStack"

\* the infrastructure stack variable the block of environment e reads its
\* references from: devInfraStack, prodInfraStack, drInfraStack
InfraStackFor_copyPasted(e) == ProjectsInfraId("dev")

InfraStackFor(e) == ProjectsInfraId(e)

\* the environment whose statements are next: statements 2k-1 and 2k belong to ProjectsPlan[k]
ProjectsEnv == ProjectsPlan[(idx + 1) \div 2]

\* node bin/cdk-projects.ts
StartProjects ==
  /\ pc = "idle"
  /\ runs < MaxRuns
  /\ entry' = "projects"
  /\ args' = NoArgs
  /\ pc' = "construct"
  /\ idx' = 1
  /\ runs' = runs + 1
  /\ UNCHANGED <<procEnv, jenkins, config, envVars, stacks, deps, err, store, published>>

\* const devInfraStack = new InfrastructureStack(app, ..., { ...devConfig fields... })
ProjectsInfra ==
  /\ pc = "construct" /\ entry = "projects" /\ idx % 2 = 1
  /\ \E rnd \in Suffixes \X Suffixes :
     LET e == ProjectsEnv
         cfg == ProjectsConfig(e)
         props == Spread(Pick(cfg, { "awsRegion", "vpcCidr", "availabilityZones",
                                     "environment", "domainName", "jenkinsRoleName" }),
                         [ projectName |-> ProjectName,
                           dbUsername |-> OrElse(ProcessEnv(EnvPrefix(e) \o "DB_USERNAME"), ""),
                           dbPassword |-> OrElse(ProcessEnv(EnvPrefix(e) \o "DB_PASSWORD"), ""),
                           dbName |-> e \o "appdb",
                           env |-> [region |-> cfg.awsRegion],
                           tags |-> cfg.tags ])
         built == InfrastructureStack(ProjectsInfraId(e), props, rnd)
     IN IF built.ok
          THEN /\ stacks' = Append(stacks,
                     StackRecord(ProjectsInfraId(e), "infrastructure", e, props.env.region,
                                 {}, built))
               /\ idx' = idx + 1
               /\ UNCHANGED <<pc, err, deps>>
          ELSE Fail(built.error)
  /\ UNCHANGED <<entry, args, procEnv, jenkins, config, envVars, store, published, runs>>

\* the props the application stack takes from the live infrastructure stack,
\* each with the output of that stack that publishes the same attribute; the
\* subnet props are arrays of ids, which no output publishes as such (the
\* outputs publish them joined into one string)
ProjectsAppRefs ==
  [ vpcId |-> "vpc-id", publicSubnetIds |-> "publicSubnets[].subnetId",
    privateSubnetIds |-> "privateSubnets[].subnetId", albSecurityGroupId |-> "alb-sg-id",
    ecsSecurityGroupId |-> "ecs-sg-id", jenkinsSecurityGroupId |-> "jenkins-sg-id",
    ecsTaskExecutionRoleArn |-> "ecs-execution-role-arn",
    ecsTaskRoleArn |-> "ecs-task-role-arn", dbEndpoint |-> "db-endpoint" ]

\* const devAppStack = new ApplicationStack(app, ..., { vpcId: devInfraStack.vpc.vpcId, ... });
\* devAppStack.addDependency(devInfraStack)
ProjectsApp ==
  /\ pc = "construct" /\ entry = "projects" /\ idx % 2 = 0
  /\ LET e == ProjectsEnv
         cfg == ProjectsConfig(e)
         infraId == InfraStackFor(e)
         refs == [p \in DOMAIN ProjectsAppRefs |-> Ref(infraId, ProjectsAppRefs[p])]
         props == Spread(Spread(refs,
                           Pick(cfg, { "awsRegion", "environment", "keyName",
                                       "jenkinsRoleName", "domainName", "useSpotInstances" })),
                         [ projectName |-> ProjectName,
                           grafanaAdminPassword |->
                             OrElse(ProcessEnv(EnvPrefix(e) \o "GRAFANA_ADMIN_PASSWORD"), ""),
                           env |-> [region |-> cfg.awsRegion],
                           tags |-> cfg.tags ])
         built == ApplicationStack(ProjectsAppId(e), props)
     IN IF built.ok
          THEN /\ stacks' = Append(stacks,
                     StackRecord(ProjectsAppId(e), "application", e, props.env.region,
                                 {Imp(ProjectsAppRefs[p], props[p]) : p \in DOMAIN ProjectsAppRefs},
                                 built))
               /\ deps' = AddDependency(ProjectsAppId(e), infraId)
               /\ IF idx = 2 * Len(ProjectsPlan)
                    THEN pc' = "done" /\ UNCHANGED idx
                    ELSE idx' = idx + 1 /\ UNCHANGED pc
               /\ UNCHANGED err
          ELSE Fail(built.error)
  /\ UNCHANGED <<entry, args, procEnv, jenkins, config, envVars, store, published, runs>>

-----------------------------------------------------------------------------
(* lib/ecs-jenkins-github-stack.ts and bin/cdk-projects.ts, first script *)

SingleExportNames == { "vpc-id", "lb-dns", "jenkins-url", "db-endpoint" }

EcsJenkinsGithubStack(id, props, rnd) ==
  IF Falsy(Tmpl(props, "dbUsername"))
    THEN Thrown("DB_USERNAME environment variable must be set")
  ELSE IF Falsy(Tmpl(props, "dbPassword"))
    THEN Thrown("DB_PASSWORD environment variable must be set")
  ELSE IF Falsy(Tmpl(props, "grafanaAdminPassword"))
    THEN Thrown("GRAFANA_ADMIN_PASSWORD environment variable must be set")
  ELSE
    LET network == NetworkConstruct(Pick(props,
                     { "vpcCidr", "publicSubnetCidrs", "privateSubnetCidrs",
                       "databaseSubnetCidrs", "availabilityZones", "environment",
                       "projectName" }), rnd[1])
        security == SecurityConstruct(Pick(props,
                      { "environment", "projectName", "blockedIpAddresses",
                        "maxRequestSize", "requestLimit", "enableSecurityHub",
                        "awsRegion" }), rnd[2])
    IN IF ~network.ok
         THEN network
         ELSE [ ok |-> TRUE, error |-> "",
                exports |-> { CfnOutput(id, n,
                                ExportKey(Tmpl(props, "projectName"),
                                          Tmpl(props, "environment"), n))
                              : n \in SingleExportNames },
                tags |-> Tmpl(props, "tags"),
                buckets |-> network.buckets \cup security.buckets ]

SingleId == "EcsJenkinsGithubDevStack"

\* node bin/cdk-projects.ts (the single-stack script)
StartSingle ==
  /\ pc = "idle"
  /\ runs < MaxRuns
  /\ entry' = "single"
  /\ args' = NoArgs
  /\ pc' = "construct"
  /\ idx' = 1
  /\ runs' = runs + 1
  /\ UNCHANGED <<procEnv, jenkins, config, envVars, stacks, deps, err, store, published>>

\* const devStack = new EcsJenkinsGithubStack(app, 'EcsJenkinsGithubDevStack', { ... })
SingleStack ==
  /\ pc = "construct" /\ entry = "single"
  /\ \E rnd \in Suffixes \X Suffixes :
     LET props == [ awsRegion |-> "us-east-1",
                    vpcCidr |-> "10.0.0.0/16",
                    availabilityZones |-> <<"us-east-1a", "us-east-1b">>,
                    environment |-> "dev",
                    projectName |-> "ecs-jenkins",
                    keyName |-> "dev-key",
                    jenkinsRoleName |-> "jenkins-role-dev",
                    dbUsername |-> OrElse(ProcessEnv("DB_USERNAME"), ""),
                    dbPassword |-> OrElse(ProcessEnv("DB_PASSWORD"), ""),
                    dbName |-> "devappdb",
                    grafanaAdminPassword |-> OrElse(ProcessEnv("GRAFANA_ADMIN_PASSWORD"), ""),
                    domainName |-> "dev-ecs-jenkins.example.com",
                    useSpotInstances |-> TRUE,
                    env |-> [region |-> OrElse(ProcessEnv("CDK_DEFAULT_REGION"), "us-east-1")],
                    tags |-> [Environment |-> "dev", Project |-> "ecs-jenkins",
                              ManagedBy |-> "CDK"] ]
         built == EcsJenkinsGithubStack(SingleId, props, rnd)
     IN IF built.ok
          THEN /\ stacks' = Append(stacks,
                     StackRecord(SingleId, "single", props.environment, props.env.region,
                                 {}, built))
               /\ pc' = "done"
               /\ UNCHANGED <<idx, err, deps>>
          ELSE Fail(built.error)
  /\ UNCHANGED <<entry, args, procEnv, jenkins, config, envVars, store, published, runs>>

-----------------------------------------------------------------------------
(* Deployment of a synthesised run: the orchestrator and the export store *)

\* cdk deploy: the stacks of the run are handed over in dependency order
StartDeploy ==
  /\ pc = "done"
  /\ pc' = "deploy"
  /\ idx' = 1
  /\ UNCHANGED <<entry, args, procEnv, jenkins, config, envVars, stacks, deps, err, store, published, runs>>

ImportKeys(s) == {i.key : i \in {j \in s.imports : j.kind = "importValue"}}

\* publish(role, environment, exportName, value) for every export of stack s
Publish(s) ==
  LET keys == {<<s.region, x.key>> : x \in s.exports}
      entryFor(k) == LET x == CHOOSE y \in s.exports : y.key = k[2]
                     IN [value |-> x.value, stack |-> s.id, env |-> s.env]
  IN [k \in DOMAIN store \cup keys |-> IF k \in keys THEN entryFor(k) ELSE store[k]]

Publications(s) ==
  { [region |-> s.region, key |-> x.key, name |-> x.name, value |-> x.value,
     stack |-> s.id, role |-> s.role, env |-> s.env] : x \in s.exports }

\* one stack: its Fn::ImportValue tokens are resolved against the store, then
\* its exports are published
DeployStack ==
  /\ pc = "deploy"
  /\ IF idx > Len(stacks)
       THEN /\ pc' = "deployed"
            /\ UNCHANGED <<idx, err, store, published>>
       ELSE LET s == stacks[idx]
                missing == {k \in ImportKeys(s) : <<s.region, k>> \notin DOMAIN store}
            IN IF missing # {}
                 THEN /\ pc' = "deployFailed"
                      /\ err' = "ExportNotFound: " \o (CHOOSE k \in missing : TRUE)
                      /\ UNCHANGED <<idx, store, published>>
                 ELSE /\ store' = Publish(s)
                      /\ published' = published \cup Publications(s)
                      /\ idx' = idx + 1
                      /\ UNCHANGED <<pc, err>>
  /\ UNCHANGED <<entry, args, procEnv, jenkins, config, envVars, stacks, deps, runs>>

\* the process ends; only the export store outlives it
Exit ==
  /\ pc \in {"done", "failed", "deployed", "deployFailed"}
  /\ entry' = "none"
  /\ args' = NoArgs
  /\ pc' = "idle"
  /\ idx' = 0
  /\ config' = Unresolved
  /\ envVars' = Unresolved
  /\ stacks' = <<>>
  /\ deps' = {}
  /\ err' = ""
  /\ UNCHANGED <<procEnv, jenkins, store, published, runs>>

Next ==
  \/ StartMulti
  \/ ResolveConfig
  \/ ResolveVars
  \/ MultiInfra
  \/ MultiCluster
  \/ MultiApp
  \/ StartProjects
  \/ ProjectsInfra
  \/ ProjectsApp
  \/ StartSingle
  \/ SingleStack
  \/ StartDeploy
  \/ DeployStack
  \/ Exit

Spec == Init /\ [][Next]_vars

-----------------------------------------------------------------------------
(* Jenkinsfile *)

cdkVars == <<entry, args, procEnv, pc, idx, config, envVars, stacks, deps, err,
             store, published, runs>>

Branches == {"main", "feature"}

\* a build of the job is triggered for a branch
StartBuild ==
  /\ jenkins.pc \in {"idle", "finished"}
  /\ jenkins.build < MaxRuns
  /\ \E b \in Branches :
       jenkins' = [ NoBuild EXCEPT !.build = jenkins.build + 1, !.branch = b,
                                   !.pc = "Checkout" ]
  /\ UNCHANGED cdkVars

\* a stage whose steps are one command: the stage runs, and the build goes on
\* to the next stage if the command succeeds and to the post section if not
Sh(stage, next) ==
  /\ jenkins.pc = stage
  /\ \E ok \in BOOLEAN :
       jenkins' = [ jenkins EXCEPT !.ran = Append(@, stage),
                                   !.failed = ~ok,
                                   !.pc = IF ok THEN next ELSE "post" ]
  /\ UNCHANGED cdkVars

Checkout == Sh("Checkout", "Install Dependencies")
InstallDependencies == Sh("Install Dependencies", "Security & Static Analysis")

\* where the build goes once both parallel stages have ended
AfterParallel(lint, audit) ==
  IF lint = "pending" \/ audit = "pending" THEN "Security & Static Analysis"
  ELSE IF lint = "failed" \/ audit = "failed" THEN "post"
  ELSE "Build"

\* parallel { stage('Lint') ... }
Lint ==
  /\ jenkins.pc = "Security & Static Analysis"
  /\ jenkins.lint = "pending"
  /\ \E r \in {"ok", "failed"} :
       jenkins' = [ jenkins EXCEPT !.ran = Append(@, "Lint"),
                                   !.lint = r,
                                   !.failed = @ \/ r = "failed",
                                   !.pc = AfterParallel(r, jenkins.audit) ]
  /\ UNCHANGED cdkVars

\* parallel { stage('Dependency Check') ... }
DependencyCheck ==
  /\ jenkins.pc = "Security & Static Analysis"
  /\ jenkins.audit = "pending"
  /\ \E r \in {"ok", "failed"} :
       jenkins' = [ jenkins EXCEPT !.ran = Append(@, "Dependency Check"),
                                   !.audit = r,
                                   !.failed = @ \/ r = "failed",
                                   !.pc = AfterParallel(jenkins.lint, r) ]
  /\ UNCHANGED cdkVars

Build == Sh("Build", "Test")
Test == Sh("Test", "CDK Synth")
CDKSynth == Sh("CDK Synth", "CDK Diff")
CDKDiff == Sh("CDK Diff", "CDK Deploy")

\* stage('CDK Deploy') { when { branch 'main' } ... }
CDKDeploy ==
  IF jenkins.branch = "main"
    THEN Sh("CDK Deploy", "post")
    ELSE /\ jenkins.pc = "CDK Deploy"
         /\ jenkins' = [jenkins EXCEPT !.pc = "post"]
         /\ UNCHANGED cdkVars

\* post { always { cleanWs() } success { ... } failure { ... } }
Post ==
  /\ jenkins.pc = "post"
  /\ jenkins' = [jenkins EXCEPT !.cleaned = TRUE, !.pc = "finished"]
  /\ UNCHANGED cdkVars

PipelineNext ==
  \/ StartBuild
  \/ Checkout
  \/ InstallDependencies
  \/ Lint
  \/ DependencyCheck
  \/ Build
  \/ Test
  \/ CDKSynth
  \/ CDKDiff
  \/ CDKDeploy
  \/ Post

PipelineSpec == Init /\ [][PipelineNext]_vars

-----------------------------------------------------------------------------
(* Vocabulary of the properties *)

StackSet == {stacks[i] : i \in 1..Len(stacks)}
Roles == [i \in 1..Len(stacks) |-> stacks[i].role]

Rank(role) ==
  CASE role = "infrastructure" -> 1
    [] role = "cluster" -> 2
    [] role = "application" -> 3
    [] OTHER -> 0

RECURSIVE Closure(_)
Closure(R) ==
  LET step == R \cup {<<e[1], f[2]>> : <<e, f>> \in {<<a, b>> \in R \X R : a[2] = b[1]}}
  IN IF step = R THEN R ELSE Closure(step)

\* the roles a deploy target asks for
Requested(t) ==
  CASE t = "all" -> {"infrastructure", "cluster", "application"}
    [] t = "infra" -> {"infrastructure"}
    [] t = "cluster" -> {"cluster"}
    [] t = "app" -> {"application"}
    [] t = "infra,cluster" -> {"infrastructure", "cluster"}

AllSecretsSet(e) == \A v \in SecretVars : ~Falsy(ProcessEnv(EnvPrefix(e) \o v))

Ended == pc \in {"done", "failed", "deployed", "deployFailed"}

-----------------------------------------------------------------------------
(* Properties *)

\* C1: the dependency edges declared in a run only ever point from a stack to
\* a stack of the same environment with a strictly earlier role
\* (infrastructure < cluster < application), so they are acyclic, and any two
\* stacks of one environment materialized in the run are ordered by them.
C1_EdgesOrderRoles ==
  LET tc == Closure(deps)
      ids == {s.id : s \in StackSet}
  IN /\ \A e \in deps : e[1] \in ids /\ e[2] \in ids
     /\ \A s, t \in StackSet :
          <<s.id, t.id>> \in tc => s.env = t.env /\ Rank(t.role) < Rank(s.role)
     /\ \A s, t \in StackSet :
          s.env = t.env /\ Rank(t.role) < Rank(s.role) => <<s.id, t.id>> \in tc

C1_Witness ==
  \E s, t \in StackSet :
    s.env = t.env /\ s.role = "application" /\ t.role = "infrastructure"
    /\ <<s.id, t.id>> \in deps

\* C2: a multi-stack run for a registered environment with every secret set
\* and deploy target "all" ends done, without error, having materialized
\* infrastructure, cluster, application in that order, each with its exports.
C2_DeployAllMaterializesThree ==
  (entry = "multi" /\ env \in RegisteredEnvs /\ deployTarget = "all"
     /\ AllSecretsSet(env) /\ pc \in {"done", "failed"})
  => (pc = "done" /\ err = ""
      /\ Roles = <<"infrastructure", "cluster", "application">>
      /\ \A s \in StackSet : s.exports # {})

\* C3: a multi-stack run whose secrets are set materializes exactly the stacks
\* of the requested roles.
C3_MaterializedIsRequested ==
  (entry = "multi" /\ AllSecretsSet(env) /\ pc \in {"done", "failed"}
     /\ err # "Vpc.fromLookup failed")
  => (pc = "done" /\ {s.role : s \in StackSet} = Requested(deployTarget))

InfraExportsPersisted(e) ==
  \E p \in published : p.env = e /\ p.role = "infrastructure" /\ p.name = "vpc-id"

C5_AppOnlyRunSucceeds ==
  (entry = "multi" /\ deployTarget = "app" /\ env \in RegisteredEnvs
     /\ InfraExportsPersisted(env)
     /\ ~Falsy(ProcessEnv(EnvPrefix(env) \o "GRAFANA_ADMIN_PASSWORD"))
     /\ pc \in {"done", "failed"})
  => (pc = "done" /\ Roles = <<"application">>)

\* C6: a run with deploy target "app" for an environment none of whose exports
\* was ever persisted ends with ExportNotFound naming ecs-jenkins-<env>-vpc-id.
C6_AppOnlyWithoutExportsFails ==
  (entry = "multi" /\ deployTarget = "app"
     /\ (\A p \in published : p.env # env)
     /\ ~Falsy(ProcessEnv(EnvPrefix(env) \o "GRAFANA_ADMIN_PASSWORD"))
     /\ Ended)
  => (pc \in {"failed", "deployFailed"}
      /\ err = "ExportNotFound: " \o ExportKey(ProjectName, env, "vpc-id"))

\* C7: when a stack imports a value by a name that another stack of the same
\* environment materialized in the same run exports, the importer receives
\* exactly the value that stack publishes (a token names exactly its key).
C7_InRunResolveReturnsPublished ==
  \A s, t \in StackSet : \A imp \in s.imports : \A x \in t.exports :
    (t.env = s.env /\ x.name = imp.name)
    => /\ imp.kind = "ref" => imp.value = x.value
       /\ imp.kind = "importValue" => imp.key = x.key

C7_Witness ==
  \E s, t \in StackSet : \E imp \in s.imports : \E x \in t.exports :
    t.env = s.env /\ x.name = imp.name /\ imp.value = x.value

\* C8: every export key is ProjectName-environment-exportName of the stack
\* that declares it, and two publications under one key are of the same
\* environment and export name.
C8_KeysFormedAndDistinct ==
  /\ \A s \in StackSet : \A x \in s.exports : x.key = ExportKey(ProjectName, s.env, x.name)
  /\ \A p, q \in published : p.key = q.key => p.env = q.env /\ p.name = q.name

\* C9: when a multi-stack run is about to build the cluster or application
\* stack, the keys it imports vpc-id and cluster-name under are the keys under
\* which the upstream stacks of that environment published them.
C9_ImportKeyIsExportKey ==
  (entry = "multi" /\ pc = "construct"
     /\ \/ idx = 2 /\ deployTarget \in {"all", "cluster"}
        \/ idx = 3 /\ deployTarget \in {"all", "app"})
  => \A p \in published :
       /\ (p.env = env /\ p.name = "vpc-id") => p.key = VpcIdImportKey
       /\ (p.env = env /\ p.name = "cluster-name") => p.key = ClusterNameImportKey

\* C10: once a run has resolved its configuration, its environment argument is
\* a registered one and the configuration is that environment's own; a run
\* given any other name has failed with UnknownEnvironment instead.
C10_UnknownEnvironmentRejected ==
  (entry = "multi" /\ pc \notin {"idle", "config"})
  => \/ env \in RegisteredEnvs /\ config.environment = env
     \/ env \notin RegisteredEnvs /\ pc = "failed" /\ err = "UnknownEnvironment"

\* the properties of the configuration that createStacks and the cluster stack read
EntryConfigReads == {"awsRegion", "tags", "appName", "envName"}
ClusterConfigReads == {"appName", "envName", "useSpotInstances"}

\* C11: once a multi-stack run for a registered environment has resolved its
\* configuration, the configuration has every property that createStacks and
\* the cluster stack read from it.
C11_ConfigHasEveryFieldRead ==
  (entry = "multi" /\ env \in RegisteredEnvs /\ pc \notin {"idle", "config"})
  => (EntryConfigReads \cup ClusterConfigReads) \subseteq DOMAIN config

\* the variable that holds each secret of each environment, as the README lists
\* them for dev and prod and bin/cdk-projects.ts reads them for dr
SecretVariable ==
  [ dev |-> [ DB_USERNAME |-> "DB_USERNAME", DB_PASSWORD |-> "DB_PASSWORD",
              GRAFANA_ADMIN_PASSWORD |-> "GRAFANA_ADMIN_PASSWORD" ],
    prod |-> [ DB_USERNAME |-> "PROD_DB_USERNAME", DB_PASSWORD |-> "PROD_DB_PASSWORD",
               GRAFANA_ADMIN_PASSWORD |-> "PROD_GRAFANA_ADMIN_PASSWORD" ],
    dr |-> [ DB_USERNAME |-> "DR_DB_USERNAME", DB_PASSWORD |-> "DR_DB_PASSWORD",
             GRAFANA_ADMIN_PASSWORD |-> "DR_GRAFANA_ADMIN_PASSWORD" ] ]

\* C12: the bundle a multi-stack run resolves for a registered environment
\* holds, field by field, the value of that environment's own variable
\* (unprefixed for dev, PROD_ / DR_ prefixed otherwise), and the empty string
\* exactly when that variable is not set, whatever the other variables hold.
C12_SecretLookupNaming ==
  (entry = "multi" /\ env \in RegisteredEnvs /\ pc \notin {"idle", "config", "vars"})
  => LET name == SecretVariable[env]
         read(n) == IF n \in DOMAIN procEnv THEN procEnv[n] ELSE ""
     IN /\ envVars.dbUsername = read(name.DB_USERNAME)
        /\ envVars.dbPassword = read(name.DB_PASSWORD)
        /\ envVars.grafanaPassword = read(name.GRAFANA_ADMIN_PASSWORD)

C12_Witness ==
  /\ entry = "multi" /\ env = "prod" /\ pc = "construct"
  /\ "DB_PASSWORD" \notin DOMAIN procEnv
  /\ envVars.dbPassword = "secret"

\* the error a constructor throws for an empty secret
MissingSecret(v) == v \o " environment variable must be set"
MissingSecretErrors == {MissingSecret(v) : v \in SecretVars}

\* the secrets the stack of a role requires
NeededSecrets(role) ==
  CASE role = "infrastructure" -> {"DB_USERNAME", "DB_PASSWORD"}
    [] role = "application" -> {"GRAFANA_ADMIN_PASSWORD"}
    [] role = "single" -> SecretVars
    [] OTHER -> {}

\* C13: a multi-stack run for a registered environment ends failed with a
\* missing-secret error exactly when a secret required by a stack of a
\* requested role is empty.
C13_MissingSecretIffTargetedStackNeedsIt ==
  (entry = "multi" /\ env \in RegisteredEnvs /\ pc \in {"done", "failed"})
  => ( (pc = "failed" /\ err \in MissingSecretErrors)
       <=> \E role \in Requested(deployTarget) : \E v \in NeededSecrets(role) :
             Falsy(ProcessEnv(EnvPrefix(env) \o v)) )

\* the environments whose stacks the running script composes
Composed ==
  CASE entry = "multi" -> {env}
    [] entry = "projects" -> {ProjectsPlan[i] : i \in 1..Len(ProjectsPlan)}
    [] entry = "single" -> {"dev"}
    [] OTHER -> {}

\* C14: a run that fails for a missing secret composes no environment whose
\* own secrets are all set: the secret that failed it belongs to every
\* environment it was composing.
C14_NoOtherEnvironmentsSecrets ==
  (pc = "failed" /\ err \in MissingSecretErrors)
  => \A e \in Composed : ~AllSecretsSet(e)

\* the DB username or password of environment e is missing
DbSecretMissing(e) ==
  \/ Falsy(ProcessEnv(EnvPrefix(e) \o "DB_USERNAME"))
  \/ Falsy(ProcessEnv(EnvPrefix(e) \o "DB_PASSWORD"))

\* the run is past the statement that constructs its first stack
PastFirstStack ==
  \/ pc \in {"done", "failed", "deploy", "deployed", "deployFailed"}
  \/ pc = "construct" /\ idx > 1

\* C15: a run for one selected environment that includes the infrastructure
\* role (multi-stack with target all or infra, or the single-stack script)
\* while that environment's DB username or password is missing has, once past
\* its first constructor, failed with the missing-secret error of the first
\* empty one, with no stack materialized.
C15_MissingDbSecretFailsBeforeAnyStack ==
  LET selected == IF entry = "multi" THEN env ELSE "dev"
  IN ( /\ \/ entry = "multi" /\ deployTarget \in {"all", "infra"}
          \/ entry = "single"
       /\ DbSecretMissing(selected)
       /\ PastFirstStack )
     => /\ pc = "failed"
        /\ err = IF Falsy(ProcessEnv(EnvPrefix(selected) \o "DB_USERNAME"))
                   THEN MissingSecret("DB_USERNAME")
                   ELSE MissingSecret("DB_PASSWORD")
        /\ stacks = <<>>

C15_Witness ==
  /\ entry = "multi" /\ env = "prod" /\ deployTarget = "all"
  /\ pc = "failed" /\ err = MissingSecret("DB_PASSWORD") /\ stacks = <<>>

\* the state of the composition driver that a position of the script stands for;
\* the script has no position of its own between resolving the secrets and
\* constructing the first stack
DriverState ==
  CASE pc \in {"idle", "config"} -> "Idle"
    [] pc = "vars" -> "ConfigResolved"
    [] pc = "construct" /\ stacks = <<>> -> "SecretsResolved"
    [] pc = "construct" /\ stacks # <<>> -> "Materializing"
    [] pc = "failed" -> "Failed"
    [] OTHER -> "Done"

StateRank(s) ==
  CASE s = "Idle" -> 0
    [] s = "ConfigResolved" -> 1
    [] s = "SecretsResolved" -> 2
    [] s = "GraphBuilt" -> 3
    [] s = "TargetFiltered" -> 4
    [] s = "Materializing" -> 5
    [] OTHER -> 6

\* C16: within one run the driver never steps back in the order Idle,
\* ConfigResolved, SecretsResolved, GraphBuilt, TargetFiltered, Materializing,
\* Done; it fails only from a non-Idle state; it never leaves Done or Failed;
\* and the graph is built before materializing starts, so no dependency edge
\* is declared while the driver is Materializing.
C16_DriverStatesInOrder ==
  [][ (entry' = entry \/ entry = "none")
      => /\ StateRank(DriverState') >= StateRank(DriverState)
         /\ DriverState \in {"Done", "Failed"} => DriverState' = DriverState
         /\ DriverState' = "Failed" => DriverState # "Idle"
         /\ DriverState = "Materializing" => deps' = deps ]_vars

\* the errors that report an import with no matching export
UnsatisfiedImportErrors ==
  {"ExportNotFound: " \o ExportKey(p, e, n) :
     p \in {ProjectName, Undefined}, e \in RegisteredEnvs \cup {Undefined},
     n \in {"vpc-id", "cluster-name"}}

\* C17: a run that ended with a graph-construction error has materialized no
\* stack.  Of the errors of that kind only the unsatisfied import is ever
\* raised: no environment name is rejected, no configuration field is checked
\* and the edges the scripts declare have no cycle.
C17_GraphErrorsBeforeMaterialization ==
  (pc \in {"failed", "deployFailed"} /\ err \in UnsatisfiedImportErrors)
  => stacks = <<>>

\* C18: the step in which a constructor throws leaves the run failed with the
\* error it threw and changes neither the stacks materialized before it, nor
\* the edges, nor the export store; a failed run materializes no further stack
\* and publishes nothing; and an error is only ever carried by a halted run.
C18_FailureHaltsWithoutRollback ==
  [][ /\ (pc # "failed" /\ pc' = "failed")
         => /\ err' # ""
            /\ stacks' = stacks /\ deps' = deps
            /\ store' = store /\ published' = published
      /\ pc = "failed"
         => /\ Len(stacks') <= Len(stacks)
            /\ store' = store /\ published' = published
      /\ err' # "" => pc' \in {"failed", "deployFailed"} ]_vars

C18_Witness ==
  /\ pc = "failed" /\ err \in MissingSecretErrors
  /\ Len(stacks) = 2 /\ idx = 3

\* the outputs the stack of a role declares
ExportNamesOf(role) ==
  CASE role = "infrastructure" -> InfraExportNames
    [] role = "cluster" -> ClusterExportNames
    [] role = "application" -> AppExportNames
    [] role = "single" -> SingleExportNames

\* C19: a step that materializes a stack appends exactly one stack, not
\* materialized before in the run, after every stack of its environment with
\* an earlier role and none with a later one, with all the outputs of its
\* role declared; the export store is not written in that step, and a step
\* that writes the store writes the exports of one stack only.
C19_OneStackAtATime ==
  [][ /\ (stacks' # stacks /\ stacks' # <<>>)
         => /\ Len(stacks') = Len(stacks) + 1
            /\ SubSeq(stacks', 1, Len(stacks)) = stacks
            /\ LET new == stacks'[Len(stacks')]
               IN /\ \A s \in StackSet : s.id # new.id
                  /\ \A s \in StackSet : s.env = new.env => Rank(s.role) < Rank(new.role)
                  /\ {x.name : x \in new.exports} = ExportNamesOf(new.role)
            /\ store' = store /\ published' = published
      /\ \A p, q \in published' \ published : p.stack = q.stack ]_vars

C19_Witness ==
  /\ pc = "deploy" /\ idx = 3
  /\ Len(stacks) > 2
  /\ \E p \in published : p.stack = stacks[1].id
  /\ \E p \in published : p.stack = stacks[2].id

\* C20: every import of a materialized stack existed when the stack was
\* materialized: a live value belongs to a stack materialized earlier in the
\* run, and a Fn::ImportValue key is in the persisted export store of the
\* stack's region or among the exports of a stack materialized earlier in the
\* run.
C20_ImportsExistBeforeMaterialization ==
  \A i \in 1..Len(stacks) : \A imp \in stacks[i].imports :
    /\ imp.kind = "ref" => \E j \in 1..(i - 1) : stacks[j].id = imp.key
    /\ imp.kind = "importValue"
       => \/ <<stacks[i].region, imp.key>> \in DOMAIN store
          \/ \E j \in 1..(i - 1) : \E x \in stacks[j].exports : x.key = imp.key

PublishedBy(id) == {p \in published : p.stack = id}

\* C22: a stack materialized again under the id of a stack that published
\* before declares exactly the keys and values that were published under that
\* id, whatever Math.random gave either constructor.
C22_RematerializedExportsIdentical ==
  \A s \in StackSet : PublishedBy(s.id) # {} => PublishedBy(s.id) = Publications(s)

C22_Witness ==
  /\ runs = 2 /\ pc = "construct"
  /\ \E s \in StackSet :
       /\ s.role = "infrastructure" /\ s.buckets # {}
       /\ PublishedBy(s.id) = Publications(s)

\* C23: in a run of bin/multi-stack-cdk.ts, an environment that is not given
\* is dev (the dev configuration is resolved and the stacks are named Dev), a
\* deploy target that is not given is 'all' (the run does not get past the
\* infrastructure step without an infrastructure stack), an application
\* version that is not given is 'latest', and a cluster version that is not
\* given stays absent (no cluster stack carries a ClusterVersion tag).
C23_Defaults ==
  entry = "multi" =>
    /\ args.env = Undefined =>
         /\ env = "dev"
         /\ pc # "config" => config = devConfig
         /\ \A s \in StackSet : s.env = "dev" /\ s.id \in {InfraId, ClusterId, AppId}
         /\ ClusterId = "EcsJenkinsClusterDevStack"
    /\ args.target = Undefined =>
         /\ deployTarget = "all"
         /\ (pc \in {"done", "deploy", "deployed", "deployFailed"}
               \/ (pc = "construct" /\ idx > 1)) => HasRole("infrastructure")
    /\ args.version = Undefined => appVersion = "latest"
    /\ args.clusterVersion = Undefined =>
         /\ clusterVersion = Undefined
         /\ \A s \in StackSet : s.role = "cluster" => "ClusterVersion" \notin DOMAIN s.tags

C23_Witness ==
  /\ entry = "multi" /\ args = NoArgs
  /\ pc = "failed" /\ config = devConfig
  /\ err = TypeErrorReading("length").error

\* the values a materialized stack's output carries: its tags and the values
\* of its exports
Carried(s) == {s.tags[k] : k \in DOMAIN s.tags} \cup {x.value : x \in s.exports}

\* C24: a cluster stack carries the cluster version as its ClusterVersion tag
\* exactly when one was given, and a run of bin/multi-stack-cdk.ts that targets
\* the application stack with its secret set ends with an application stack
\* whose output carries the application version ('latest' when none was
\* given).
C24_VersionsAttached ==
  entry = "multi" =>
    /\ \A s \in StackSet : s.role = "cluster" =>
         IF args.clusterVersion = Undefined
           THEN "ClusterVersion" \notin DOMAIN s.tags
           ELSE "ClusterVersion" \in DOMAIN s.tags
                /\ s.tags["ClusterVersion"] = args.clusterVersion
    /\ \A s \in StackSet : s.role = "application" => appVersion \in Carried(s)
    /\ (Ended /\ deployTarget = "app" /\ ~Falsy(envVars.grafanaPassword))
         => \E s \in StackSet : s.role = "application" /\ appVersion \in Carried(s)

\* C25: the configuration a run of bin/multi-stack-cdk.ts resolved is, at
\* every later step, still the registered configuration of its environment,
\* without a Component tag; the Component tag of a materialized stack is in
\* the stack's own tags only.
C25_RegisteredConfigsNotMutated ==
  (entry = "multi" /\ pc \notin {"idle", "config"}) =>
    /\ config = getEnvConfig(env)
    /\ config \in {devConfig, prodConfig, drConfig}
    /\ "Component" \notin DOMAIN config.tags
    /\ \A s \in StackSet :
         /\ "Component" \in DOMAIN s.tags
         /\ s.role = "cluster" => s.tags["Component"] = "Cluster"

C25_Witness ==
  /\ entry = "multi" /\ pc = "done"
  /\ config = prodConfig
  /\ \E s \in StackSet : s.role = "cluster" /\ s.tags["Component"] = "Cluster"

\* C26: a multi-stack run that fails for a missing secret reports the variable
\* it looked up for its environment (PROD_DB_PASSWORD for prod, not
\* DB_PASSWORD), and a run given an environment that is not registered does
\* not carry on past configuration resolution under another environment's
\* configuration.
C26_ErrorsNameWhatFailed ==
  entry = "multi" =>
    /\ (pc = "failed" /\ err \in MissingSecretErrors)
         => \E v \in SecretVars :
              /\ Falsy(ProcessEnv(EnvPrefix(env) \o v))
              /\ err = MissingSecret(EnvPrefix(env) \o v)
    /\ env \notin RegisteredEnvs => pc \in {"config", "failed"}

\* the step of the README's CI/CD Workflow list (1 Source .. 7 Post-deployment
\* Tests) a stage of the Jenkinsfile carries out; 0 for a stage the list does
\* not have
WorkflowStep(stage) ==
  CASE stage = "Checkout" -> 1
    [] stage = "Build" -> 2
    [] stage = "Test" -> 3
    [] stage \in {"Lint", "Dependency Check"} -> 4
    [] stage = "CDK Diff" -> 5
    [] stage = "CDK Deploy" -> 6
    [] OTHER -> 0

\* C27: the stages a build has run were run in the order of the documented
\* workflow (source, build, test, security scan, plan, deploy, post-deployment
\* tests); the deploy stage has only run after the diff stage; and a build
\* that ran the deploy stage has, when it finishes, run a post-deployment
\* test stage.
C27_StagesInDocumentedOrder ==
  LET ran == jenkins.ran
      at(k) == {i \in 1..Len(ran) : WorkflowStep(ran[i]) = k}
  IN /\ \A i, j \in 1..Len(ran) :
          (i < j /\ WorkflowStep(ran[i]) # 0 /\ WorkflowStep(ran[j]) # 0)
            => WorkflowStep(ran[i]) <= WorkflowStep(ran[j])
     /\ \A j \in at(6) : \E i \in at(5) : i < j
     /\ (jenkins.pc = "finished" /\ at(6) # {}) => \E j \in at(7) : \A i \in at(6) : i < j

\* the registered environment a configuration is the configuration of
EnvironmentOf(cfg) == CHOOSE e \in RegisteredEnvs : getEnvConfig(e) = cfg

\* C28: whatever environment argument a multi-stack run is given, the secret
\* bundle it resolved was read from the variables of the environment whose
\* configuration it resolved.
C28_ConfigAndSecretsSameEnvironment ==
  (entry = "multi" /\ pc \notin {"idle", "config", "vars"})
  => /\ \E e \in RegisteredEnvs : getEnvConfig(e) = config
     /\ EnvPrefix(env) = EnvPrefix(EnvironmentOf(config))
     /\ envVars = getEnvVars(EnvironmentOf(config))

KeysOf(s) == {x.key : x \in s.exports}

\* C29: the export names of the infrastructure, cluster and application stack
\* classes are pairwise disjoint; two different stacks of one environment
\* materialized in a run declare no key in common; and, over all runs, a key
\* of an environment that was published by a stack of one of the three roles
\* was never published by another stack of those roles.
C29_RoleExportKeysDisjoint ==
  /\ InfraExportNames \cap ClusterExportNames = {}
  /\ InfraExportNames \cap AppExportNames = {}
  /\ ClusterExportNames \cap AppExportNames = {}
  /\ \A s, u \in StackSet :
       (s.id # u.id /\ s.env = u.env) => KeysOf(s) \cap KeysOf(u) = {}
  /\ \A p, q \in published :
       (p.key = q.key /\ p.region = q.region /\ p.env = q.env
          /\ p.stack # SingleId /\ q.stack # SingleId)
       => p.stack = q.stack

C29_Witness ==
  /\ entry = "projects" /\ pc = "deploy"
  /\ \E s, u \in StackSet :
       /\ s.env = u.env /\ s.role = "infrastructure" /\ u.role = "application"
       /\ PublishedBy(s.id) = Publications(s)
       /\ PublishedBy(u.id) = Publications(u)

\* C30: every dependency edge declared in a run joins two different stacks
\* that are both materialized in that run; a run that has materialized at most
\* one stack, and so every multi-stack run for a single role, has declared no
\* edge.
C30_EdgesOnlyBetweenMaterializedStacks ==
  LET ids == {s.id : s \in StackSet}
  IN /\ \A e \in deps : e[1] \in ids /\ e[2] \in ids /\ e[1] # e[2]
     /\ Cardinality(ids) <= 1 => deps = {}
     /\ (entry = "multi" /\ deployTarget \in {"infra", "cluster", "app"}) => deps = {}

C30_Witness ==
  /\ entry = "multi" /\ deployTarget = "cluster" /\ pc = "done"
  /\ \E s \in StackSet : s.role = "cluster"
  /\ deps = {}

====
